---- MODULE Spec2Model ----
(***************************************************************************)
(* A model of the OPDS self-test client (src/model.py, src/self-test.py).  *)
(*                                                                         *)
(* Conventions.  A Python str is a sequence of chunks (a chunk is one or   *)
(* more characters), so that equality, startswith and concatenation are    *)
(* those of sequences; Python's None is the one-chunk sequence None.  A    *)
(* JSON object is a TLA+ record whose DOMAIN is the set of keys present.   *)
(* A response body (bytes) is a record saying what the bytes are; the      *)
(* parsers (json.loads, BeautifulSoup, bytes.decode) are operators on it   *)
(* that raise where Python raises.  A raised exception is a string naming  *)
(* it; NoExc means that nothing was raised.                                *)
(***************************************************************************)
EXTENDS Integers, Sequences, FiniteSets, TLC

VARIABLES
    net,        \* the HTTP requests issued so far, in order
    doc,        \* SpecGet: the Document instance under test
    gets,       \* SpecGet: number of get() calls made on doc
    last,       \* SpecGet: what the last get() call did
    data,       \* SpecLinks: the parsed JSON of an AuthenticationDocument
    calls,      \* SpecLinks: the calls made on it and what each did
    feed,       \* SpecFeed: the OPDS1Feed instance
    served,     \* SpecFeed: the entry elements of the feed the server holds
    report,     \* SpecFeed: what validate() did
    tok,        \* SpecToken: the token string handed to the registry
    tokres,     \* SpecToken: what each operation on tok did
    variant,    \* which script runs: "model.py" or "self-test.py"
    verbose,    \* the verbose flag (model.verbose, Constants.verbose)
    REGISTRY,   \* Fulfillment.REGISTRY: content type -> handler class
    shelf,      \* Spec: the bookshelf entry under validation, links still to fulfil
    stack,      \* Spec: the Fulfillment.fulfill calls in progress, innermost last
    pending,    \* Spec: the calls the innermost handler has yet to make
    done,       \* Spec: the fulfill call that ran last
    raised,     \* Spec: the exception that ended the run, or NoExc
    pdoc,       \* SpecProfile: the PatronProfileDocument instance
    profile,    \* SpecProfile: the JSON object the server holds for it
    pres,       \* SpecProfile: what validate() did
    main        \* SpecMain: where main() is, its locals and what it printed

getVars == <<doc, gets, last>>
linkVars == <<data, calls>>
feedVars == <<feed, served, report>>
tokVars == <<tok, tokres>>
profVars == <<pdoc, profile, pres>>
fulVars == <<REGISTRY, shelf, stack, pending, done, raised>>
vars == <<net, variant, verbose, main, getVars, linkVars, feedVars, tokVars, profVars, fulVars>>

----------------------------------------------------------------------------
(* Python values *)

None == <<"None">>
NoExc == "NoExc"

\* str.startswith
startswith(s, p) == Len(p) <= Len(s) /\ SubSeq(s, 1, Len(p)) = p

\* truth value of a str-or-None
Truthy(s) == s # None /\ s # <<>>

\* dict.get(k, default) and the key test "k in d"
Has(d, k) == k \in DOMAIN d
GetOr(d, k, default) == IF Has(d, k) THEN d[k] ELSE default

----------------------------------------------------------------------------
(* Constants (class Constants) *)

OPDS_1 == <<"application/atom+xml", ";profile=opds-catalog", ";kind=acquisition">>
OPDS_2 == <<"application/opds+json">>
AUTHENTICATION_DOCUMENT == <<"application/vnd.opds.authentication.v1.0+json">>
PATRON_PROFILE_DOCUMENT == <<"vnd.librarysimplified/user-profile+json">>
ACSM == <<"application/vnd.adobe", ".adept+xml">>
AUDIOBOOK_JSON == <<"application/audiobook", "+json">>
PROBLEM_DETAIL == <<"application/api-problem+json">>

\* the chunks in which the words "xml" and "json" occur
XmlChunks == {"application/atom+xml", ".adept+xml"}
JsonChunks == {"application/opds+json", "application/vnd.opds.authentication.v1.0+json",
               "vnd.librarysimplified/user-profile+json", "+json",
               "application/api-problem+json"}
\* the test "w in s" for w = 'xml' and w = 'json'
HasXml(s) == \E i \in 1..Len(s) : s[i] \in XmlChunks
HasJson(s) == \E i \in 1..Len(s) : s[i] \in JsonChunks

----------------------------------------------------------------------------
(* Response bodies and their parsers *)

\* bytes: kind "empty" is b'', "json" a JSON text (value: what it parses to),
\* "xml" a markup text, "text" any other UTF-8 text, "binary" bytes that are
\* not UTF-8.
EmptyBody == [kind |-> "empty"]
TextBody == [kind |-> "text"]
BinaryBody == [kind |-> "binary"]
XmlBody(tags) == [kind |-> "xml", tags |-> tags]
JsonBody(v) == [kind |-> "json", value |-> v]

\* "not content" for bytes
BytesFalsy(b) == b.kind = "empty"
\* bytes.decode("utf8")
DecodeRaises(b) == b.kind = "binary"
\* json.loads
JsonLoadsRaises(b) == b.kind # "json"

NoneRep == [kind |-> "None"]
Soup(b) == [kind |-> "soup", of |-> b]
\* "not self._representation": None and b'' are false; a BeautifulSoup object
\* is a Tag, whose __bool__ is True.
RepFalsy(r) == r.kind = "None" \/ r.kind = "empty"

----------------------------------------------------------------------------
(* MakesRequests.request *)

Msg(level, text) == [level |-> level, text |-> text]

\* "response.status_code / 100 != 2": "/" is Python 3's true division, so the
\* quotient is 2 only for status_code = 200.
StatusWarns(status_code) == status_code # 2 * 100

\* the verbose block of request(): the exception it raises, or NoExc
VerboseRaises(resp) ==
    IF DecodeRaises(resp.content) THEN "UnicodeDecodeError"
    ELSE IF resp.content_type = None THEN "TypeError"
    ELSE IF HasXml(resp.content_type) THEN NoExc
    ELSE IF HasJson(resp.content_type) /\ JsonLoadsRaises(resp.content)
         THEN "JSONDecodeError"
    ELSE NoExc

\* request(url, name, expect_content_type) when the transport delivers resp:
\* the diagnostics printed and the exception raised (NoExc: resp is returned).
request(expect_content_type, resp, vb) ==
    LET l1 == <<Msg("p", "Retrieved")>>
        l2 == IF StatusWarns(resp.status_code)
              THEN <<Msg("warn", "Status code was")>> ELSE <<>>
        l3 == IF resp.content_type = PROBLEM_DETAIL
              THEN <<Msg("warn", "Got a problem detail document")>> ELSE <<>>
        l4 == IF Truthy(expect_content_type)
                 /\ (~Truthy(resp.content_type)
                     \/ ~startswith(resp.content_type, expect_content_type))
              THEN <<Msg("warn", "Expected content type")>> ELSE <<>>
        l5 == <<Msg("p", "bytes")>>
        exc == IF vb THEN VerboseRaises(resp) ELSE NoExc
        l6 == IF vb
              THEN <<Msg("p", "rule")>>
                   \o (IF exc = NoExc THEN <<Msg("p", "content"), Msg("p", "rule")>>
                       ELSE <<>>)
              ELSE <<>>
    IN  [raised |-> exc, log |-> l1 \o l2 \o l3 \o l4 \o l5 \o l6]

----------------------------------------------------------------------------
(* MakesRequests.get and OPDS1Feed.get *)

\* MakesRequests.__init__
NewDocument(cls, url, auth, expect) ==
    [cls |-> cls, url |-> url, auth |-> auth,
     expect_content_type |-> expect, representation |-> NoneRep]

HttpGet(d) == [method |-> "GET", url |-> d.url, auth |-> d.auth]

\* MakesRequests.get on d when the transport would deliver resp: the document
\* afterwards, whether a request was made, the exception, the value returned.
MakesRequests_get(d, resp, vb) ==
    IF RepFalsy(d.representation)
    THEN LET r == request(d.expect_content_type, resp, vb)
         IN  IF r.raised # NoExc
             THEN [doc |-> d, fetched |-> TRUE, raised |-> r.raised,
                   ret |-> NoneRep, log |-> r.log]
             ELSE [doc |-> [d EXCEPT !.representation = resp.content],
                   fetched |-> TRUE, raised |-> NoExc,
                   ret |-> resp.content, log |-> r.log]
    ELSE [doc |-> d, fetched |-> FALSE, raised |-> NoExc,
          ret |-> d.representation, log |-> <<>>]

\* OPDS1Feed.get: the inherited get, then the representation is replaced by
\* BeautifulSoup(representation, "lxml").  When the representation already is
\* a BeautifulSoup object the constructor is handed a Tag instead of markup;
\* reparse says whether the library accepts that or raises TypeError.
OPDS1Feed_get(d, resp, vb, reparse) ==
    LET g == MakesRequests_get(d, resp, vb)
    IN  IF g.raised # NoExc THEN g
        ELSE IF g.doc.representation.kind = "soup"
        THEN IF reparse THEN [g EXCEPT !.ret = g.doc.representation]
             ELSE [g EXCEPT !.raised = "TypeError", !.ret = NoneRep]
        ELSE [g EXCEPT !.doc.representation = Soup(g.doc.representation),
                       !.ret = Soup(g.doc.representation)]

Document_get(d, resp, vb, reparse) ==
    IF d.cls = "OPDS1Feed" THEN OPDS1Feed_get(d, resp, vb, reparse)
    ELSE MakesRequests_get(d, resp, vb)

----------------------------------------------------------------------------
(* Fulfillment.REGISTRY, Fulfillment.register and the lookup in fulfill *)

MEDIA_TYPE(cls) ==
    CASE cls = "ACSMFulfillment" -> ACSM
      [] cls = "AudiobookJSONFulfillment" -> AUDIOBOOK_JSON

\* cls.REGISTRY[subclass.MEDIA_TYPE] = subclass
register(reg, subclass) ==
    [t \in DOMAIN reg \cup {MEDIA_TYPE(subclass)} |->
        IF t = MEDIA_TYPE(subclass) THEN subclass ELSE reg[t]]

\* REGISTRY = {} and the two register() calls made while the module loads
EmptyRegistry == [t \in {} |-> "Fulfillment"]
LoadedRegistry ==
    register(register(EmptyRegistry, "ACSMFulfillment"), "AudiobookJSONFulfillment")

\* a lookup that also accepts a content type with parameters after a
\* registered one
FulfillClass_PrefixMatch(reg, type) ==
    IF \E t \in DOMAIN reg : startswith(type, t)
    THEN reg[CHOOSE t \in DOMAIN reg : startswith(type, t)]
    ELSE "Fulfillment"

\* cls.REGISTRY.get(type, Fulfillment)
FulfillClass(reg, type) ==
    IF type \in DOMAIN reg THEN reg[type] ELSE "Fulfillment"

----------------------------------------------------------------------------
(* Parts of the state a specification does not use *)

IdleLinks == data = [links |-> <<>>] /\ calls = <<>>
IdleFeed == feed = [cls |-> "None"] /\ served = <<>> /\ report = [kind |-> "none"]
IdleToken == tok = <<>> /\ tokres = [kind |-> "none"]
IdleProfile ==
    pdoc = [cls |-> "None"] /\ profile = [other |-> 1] /\ pres = [kind |-> "none"]
Variants == {"model.py", "self-test.py"}
IdleFulfil ==
    /\ REGISTRY = LoadedRegistry
    /\ shelf = [cls |-> "None"] /\ stack = <<>> /\ pending = <<>>
    /\ done = [kind |-> "none"] /\ raised = NoExc
IdleMain == main = [pc |-> "none"]
IdleGet == doc = NoneRep /\ gets = 0 /\ last = [kind |-> "none"]

----------------------------------------------------------------------------
(* SpecGet: one Document instance and a sequence of get() calls on it *)

MaxGets == 3

Credentials == {None, <<"user", ":", "pw">>}
StatusCodes == {200, 201, 404}
ContentTypes == {None, OPDS_1, ACSM, PROBLEM_DETAIL}
Bodies == {EmptyBody, TextBody, BinaryBody, XmlBody({}), JsonBody([a |-> 1])}
Responses == [status_code : StatusCodes, content_type : ContentTypes, content : Bodies]

NoCall == [kind |-> "none"]

InitGet ==
    /\ net = <<>>
    /\ gets = 0
    /\ last = NoCall
    /\ \E cls \in {"MakesRequests", "OPDS1Feed"}, auth \in Credentials,
          expect \in {None, OPDS_1} :
            doc = NewDocument(cls, <<"http://h/doc">>, auth, expect)
    /\ IdleLinks /\ IdleFeed /\ IdleToken /\ IdleProfile /\ IdleFulfil
    /\ variant \in Variants /\ verbose \in BOOLEAN /\ IdleMain

\* one call of doc.get()
Get ==
    /\ gets < MaxGets
    /\ \E resp \in Responses, reparse \in BOOLEAN :
         LET g == Document_get(doc, resp, verbose, reparse)
         IN  /\ doc' = g.doc
             /\ net' = IF g.fetched THEN Append(net, HttpGet(doc)) ELSE net
             /\ last' = [kind |-> "get", fetched |-> g.fetched, raised |-> g.raised,
                         ret |-> g.ret, log |-> g.log,
                         resp |-> IF g.fetched THEN resp ELSE NoCall,
                         before |-> doc.representation]
    /\ gets' = gets + 1
    /\ UNCHANGED <<variant, verbose, main, linkVars, feedVars, tokVars, profVars, fulVars>>

NextGet == Get

SpecGet == InitGet /\ [][NextGet]_vars

\* C1: a Document never re-fetches: at most one HTTP GET is issued for an
\* instance whatever body the server returned, so a get() issues a request
\* only while nothing has been stored by an earlier get().
C1_NeverRefetches ==
    (last.kind = "get" /\ last.fetched) => last.before = NoneRep

\* C11: request() raises for no response the transport delivers: whatever the
\* status code and the Content-Type (absent and problem detail included),
\* verbose or not, a get() that made the request ends without an exception,
\* returns the response body and has stored it.
C11_RequestNeverRaises ==
    (last.kind = "get" /\ last.fetched /\ doc.cls = "MakesRequests") =>
        /\ last.raised = NoExc
        /\ last.ret = last.resp.content
        /\ doc.representation = last.resp.content

----------------------------------------------------------------------------
(* HasLinks.link_with_rel, AuthenticationDocument.link_with_rel and          *)
(* AuthenticationDocument.main_catalog                                       *)

\* [x['href'] for x in links if cond(x)]: the list, or KeyError when a link
\* that satisfies cond has no href.
RECURSIVE Hrefs(_, _, _)
Hrefs(links, rel, typed) ==
    IF links = <<>> THEN [raised |-> NoExc, hrefs |-> <<>>]
    ELSE LET x == Head(links)
             sel == /\ GetOr(x, "rel", None) = rel
                    /\ (typed => startswith(GetOr(x, "type", <<>>), OPDS_1))
             rest == Hrefs(Tail(links), rel, typed)
         IN  IF ~sel THEN rest
             ELSE IF ~Has(x, "href") THEN [raised |-> "KeyError", hrefs |-> <<>>]
             ELSE IF rest.raised # NoExc THEN rest
             ELSE [raised |-> NoExc, hrefs |-> <<x.href>> \o rest.hrefs]

link_with_rel(d, rel) ==
    IF ~Has(d, "links")
    THEN [raised |-> "KeyError", ret |-> None, log |-> <<>>]
    ELSE LET l == Hrefs(d.links, rel, FALSE)
         IN  IF l.raised # NoExc
             THEN [raised |-> l.raised, ret |-> None, log |-> <<>>]
             ELSE IF l.hrefs = <<>>
             THEN [raised |-> NoExc, ret |-> None,
                   log |-> <<Msg("error", "No link found with rel")>>]
             ELSE [raised |-> NoExc, ret |-> l.hrefs[1], log |-> <<>>]

NoDocument == [cls |-> "None"]

\* the property main_catalog: after the error is logged for an empty list,
\* links[0] is evaluated all the same.
main_catalog(d, auth) ==
    IF ~Has(d, "links")
    THEN [raised |-> "KeyError", ret |-> NoDocument, log |-> <<>>]
    ELSE LET l == Hrefs(d.links, <<"start">>, TRUE)
         IN  IF l.raised # NoExc
             THEN [raised |-> l.raised, ret |-> NoDocument, log |-> <<>>]
             ELSE IF l.hrefs = <<>>
             THEN [raised |-> "IndexError", ret |-> NoDocument,
                   log |-> <<Msg("error", "no usable start link")>>]
             ELSE [raised |-> NoExc, log |-> <<>>,
                   ret |-> NewDocument("OPDS1Feed", l.hrefs[1], auth, None)]

----------------------------------------------------------------------------
(* SpecLinks: an authentication document's links and calls on them *)

MaxLinks == 3
MaxCalls == 2

LinkShapes ==
    { [rel |-> <<"a">>], [rel |-> <<"b">>],
      [rel |-> <<"a">>, href |-> <<"X">>], [rel |-> <<"a">>, href |-> <<"Y">>],
      [rel |-> <<"b">>, href |-> <<"Y">>], [href |-> <<"X">>],
      [rel |-> <<"start">>, href |-> <<"X">>, type |-> OPDS_1],
      [rel |-> <<"start">>, href |-> <<"Y">>, type |-> OPDS_1 \o <<";charset=utf-8">>],
      [rel |-> <<"start">>, href |-> <<"Y">>, type |-> <<"application/atom+xml">>],
      [rel |-> <<"start">>, href |-> <<"X">>],
      [rel |-> <<"start">>, type |-> OPDS_1] }
Rels == {<<"a">>, <<"b">>, <<"start">>}

SeqsUpTo(S, n) == UNION {[1..k -> S] : k \in 0..n}

InitLinks ==
    /\ net = <<>>
    /\ IdleGet /\ IdleFeed /\ IdleToken /\ IdleProfile /\ IdleFulfil
    /\ variant \in Variants /\ verbose = FALSE /\ IdleMain
    /\ calls = <<>>
    /\ \E ls \in SeqsUpTo(LinkShapes, MaxLinks) : data = [links |-> ls]

CallLinkWithRel ==
    /\ Len(calls) < MaxCalls
    /\ \E rel \in Rels :
         LET r == link_with_rel(data, rel)
         IN  calls' = Append(calls, [op |-> "link_with_rel", rel |-> rel,
                                     raised |-> r.raised, ret |-> r.ret, log |-> r.log])
    /\ UNCHANGED <<net, variant, verbose, main, data, getVars, feedVars, tokVars, profVars, fulVars>>

CallMainCatalog ==
    /\ Len(calls) < MaxCalls
    /\ \E auth \in Credentials :
         LET r == main_catalog(data, auth)
         IN  calls' = Append(calls, [op |-> "main_catalog", auth |-> auth,
                                     raised |-> r.raised, ret |-> r.ret, log |-> r.log])
    /\ UNCHANGED <<net, variant, verbose, main, data, getVars, feedVars, tokVars, profVars, fulVars>>

NextLinks == CallLinkWithRel \/ CallMainCatalog

SpecLinks == InitLinks /\ [][NextLinks]_vars

\* the links of d that main_catalog accepts / that carry the relation rel
IsStartLink(x) ==
    /\ Has(x, "rel") /\ x.rel = <<"start">>
    /\ Has(x, "type") /\ startswith(x.type, OPDS_1)
FirstIndex(ls, P(_)) ==
    IF \E i \in 1..Len(ls) : P(ls[i])
    THEN CHOOSE i \in 1..Len(ls) : P(ls[i]) /\ \A j \in 1..(i - 1) : ~P(ls[j])
    ELSE 0

\* C2: main_catalog never raises: without a usable start link it logs an
\* error and still returns a constructed feed document; with one it returns an
\* OPDS1Feed pointed at the first matching link's href.
C2_MainCatalogReturnsFeed ==
    \A i \in 1..Len(calls) :
        calls[i].op = "main_catalog" =>
            LET k == FirstIndex(data.links, IsStartLink)
            IN  /\ calls[i].raised = NoExc
                /\ calls[i].ret.cls = "OPDS1Feed"
                /\ k = 0 => \E m \in 1..Len(calls[i].log) : calls[i].log[m].level = "error"
                /\ (k # 0 /\ Has(data.links[k], "href"))
                       => calls[i].ret.url = data.links[k].href

\* C4: link_with_rel never raises; it returns the href of the first link in
\* document order whose rel is the requested one, or logs an error and
\* returns None when there is none; repeating the call gives the same result.
C4_FirstLinkWithRel ==
    \A i \in 1..Len(calls) :
        calls[i].op = "link_with_rel" =>
            LET HasRel(x) == Has(x, "rel") /\ x.rel = calls[i].rel
                k == FirstIndex(data.links, HasRel)
            IN  /\ calls[i].raised = NoExc
                /\ k = 0 => /\ calls[i].ret = None
                            /\ \E m \in 1..Len(calls[i].log) :
                                   calls[i].log[m].level = "error"
                /\ (k # 0 /\ Has(data.links[k], "href"))
                       => calls[i].ret = data.links[k].href
                /\ \A j \in 1..Len(calls) :
                       (calls[j].op = "link_with_rel" /\ calls[j].rel = calls[i].rel)
                           => calls[j].ret = calls[i].ret

----------------------------------------------------------------------------
(* OPDS1Feed.entries and OPDS1Feed.validate *)

\* self.get().find_all('entry'): the entry elements of the parsed markup
\* (the lenient parser finds none in a body that is not markup)
EntriesOf(rep) ==
    IF rep.kind = "soup" /\ rep.of.kind = "xml" THEN rep.of.tags ELSE <<>>

\* e.find('link', rel="collection"): <<the first such link of the entry>>, or
\* <<>> for None
RECURSIVE FindLink(_, _)
FindLink(links, rel) ==
    IF links = <<>> THEN <<>>
    ELSE IF GetOr(Head(links), "rel", None) = rel THEN <<Head(links)>>
    ELSE FindLink(Tail(links), rel)

\* the order of str used by sorted(): by code point
CodePoints == <<"A", "B", "C">>
Ord(c) == CHOOSE i \in 1..Len(CodePoints) : CodePoints[i] = c
RECURSIVE StrLess(_, _)
StrLess(a, b) ==
    IF b = <<>> THEN FALSE
    ELSE IF a = <<>> THEN TRUE
    ELSE IF Head(a) # Head(b) THEN Ord(Head(a)) < Ord(Head(b))
    ELSE StrLess(Tail(a), Tail(b))

\* collections: the keys in order of first appearance, and the number of
\* titles appended under each
RECURSIVE Collect(_)
Collect(entries) ==
    IF entries = <<>> THEN [keys |-> <<>>, n |-> <<>>]
    ELSE LET e == entries[Len(entries)]
             c == Collect(SubSeq(entries, 1, Len(entries) - 1))
             collection == FindLink(e.links, <<"collection">>)
         IN  IF collection = <<>> THEN c
             ELSE LET k == GetOr(collection[1], "title", None)
                      at == {i \in 1..Len(c.keys) : c.keys[i] = k}
                  IN  IF at = {} THEN [keys |-> Append(c.keys, k), n |-> Append(c.n, 1)]
                      ELSE [c EXCEPT !.n[CHOOSE i \in at : TRUE] = @ + 1]

\* sorted(collections.items()): comparing a None key with a str key raises
\* TypeError; otherwise the items in ascending order of key
SortedRaises(keys) ==
    \E i, j \in 1..Len(keys) : keys[i] = None /\ keys[j] # None
RECURSIVE SortedItems(_)
SortedItems(c) ==
    IF c.keys = <<>> THEN <<>>
    ELSE LET m == CHOOSE i \in 1..Len(c.keys) :
                     \A j \in 1..Len(c.keys) : j = i \/ StrLess(c.keys[i], c.keys[j])
             drop(q) == [i \in 1..(Len(q) - 1) |-> IF i < m THEN q[i] ELSE q[i + 1]]
         IN  <<[key |-> c.keys[m], count |-> c.n[m]]>>
             \o SortedItems([keys |-> drop(c.keys), n |-> drop(c.n)])

\* OPDS1Feed.validate on the entries: what is printed
validate_entries(entries) ==
    LET c == Collect(entries)
    IN  IF c.keys # <<>>
        THEN IF SortedRaises(c.keys)
             THEN [kind |-> "grouped", raised |-> "TypeError", groups |-> <<>>]
             ELSE [kind |-> "grouped", raised |-> NoExc,
                   groups |-> IF Len(c.keys) = 1
                              THEN <<[key |-> c.keys[1], count |-> c.n[1]]>>
                              ELSE SortedItems(c)]
        ELSE [kind |-> "ungrouped", raised |-> NoExc, titles |-> Len(entries)]

\* OPDS1Feed.validate: fetch through entries, then report
OPDS1Feed_validate(d, resp, vb) ==
    LET g == OPDS1Feed_get(d, resp, vb, TRUE)
    IN  IF g.raised # NoExc
        THEN [doc |-> g.doc, fetched |-> g.fetched,
              report |-> [kind |-> "failed", raised |-> g.raised]]
        ELSE [doc |-> g.doc, fetched |-> g.fetched,
              report |-> validate_entries(EntriesOf(g.ret))]

----------------------------------------------------------------------------
(* SpecFeed: a feed on the server and one validate() of it *)

MaxEntries == 3

CollectionLink(t) == [rel |-> <<"collection">>, title |-> t]
EntryLinks ==
    { <<>>, <<[rel |-> <<"alternate">>]>>,
      <<CollectionLink(<<"A">>)>>, <<CollectionLink(<<"B">>)>>,
      <<[rel |-> <<"collection">>]>>,
      <<[rel |-> <<"alternate">>], CollectionLink(<<"B">>), CollectionLink(<<"A">>)>> }
Entries == [title : {None, <<"T">>}, links : EntryLinks]

InitFeed ==
    /\ net = <<>>
    /\ IdleGet /\ IdleLinks /\ IdleToken /\ IdleProfile /\ IdleFulfil
    /\ variant \in Variants /\ verbose \in BOOLEAN /\ IdleMain
    /\ report = [kind |-> "none"]
    /\ served \in SeqsUpTo(Entries, MaxEntries)
    /\ \E auth \in Credentials :
          feed = NewDocument("OPDS1Feed", <<"http://h/feed">>, auth, None)

Validate ==
    /\ report.kind = "none"
    /\ \E status \in {200, 404}, ct \in {None, OPDS_1},
          content \in {XmlBody(served), EmptyBody} :
         LET v == OPDS1Feed_validate(
                     feed, [status_code |-> status, content_type |-> ct,
                            content |-> content], verbose)
         IN  /\ feed' = v.doc
             /\ report' = v.report
             /\ net' = IF v.fetched THEN Append(net, HttpGet(feed)) ELSE net
    /\ UNCHANGED <<variant, verbose, main, served, getVars, linkVars, tokVars, profVars, fulVars>>

NextFeed == Validate

SpecFeed == InitFeed /\ [][NextFeed]_vars

RECURSIVE SumCounts(_)
SumCounts(groups) ==
    IF groups = <<>> THEN 0 ELSE Head(groups).count + SumCounts(Tail(groups))

\* the entries validate() saw
Seen == EntriesOf(feed.representation)
HasCollection(e) == \E i \in 1..Len(e.links) : GetOr(e.links[i], "rel", None) = <<"collection">>

\* C3: validate reports a partition of the entries: the reported per-group
\* counts (plus the ungrouped count, when one is reported) add up to the number
\* of entries, and a feed without any collection link is reported as ungrouped
\* with the total entry count.
C3_GroupingIsPartition ==
    report.kind \in {"grouped", "ungrouped"} =>
        /\ report.raised = NoExc
        /\ report.kind = "grouped" => SumCounts(report.groups) = Len(Seen)
        /\ report.kind = "ungrouped" => report.titles = Len(Seen)
        /\ (\A i \in 1..Len(Seen) : ~HasCollection(Seen[i])) => report.kind = "ungrouped"

----------------------------------------------------------------------------
(* LibraryRegistry.CLIENT_TOKEN_RE and LibraryRegistry.decompose_token       *)
(*                                                                           *)
(* A token is a sequence of characters; the two wrapper tags and the word    *)
(* drm:clientToken standing alone are single elements of it.                 *)

OpenTag == "<drm:clientToken>"
CloseTag == "</drm:clientToken>"
BareWord == "drm:clientToken"
Pipe == "|"
Newline == "LF"

Digit == {"0", "1", "2", "3", "4", "5", "6", "7", "8", "9"}
AsciiLetter ==
    {"a", "b", "c", "d", "e", "f", "g", "h", "i", "j", "k", "l", "m", "n", "o", "p", "q",
     "r", "s", "t", "u", "v", "w", "x", "y", "z", "A", "B", "C", "D", "E", "F", "G", "H",
     "I", "J", "K", "L", "M", "N", "O", "P", "Q", "R", "S", "T", "U", "V", "W", "X", "Y", "Z"}
\* the non-ASCII letters that re.IGNORECASE folds onto ASCII letters, which
\* [A-Za-z] therefore matches too
FoldedLetter == {"U+0130", "U+0131", "U+017F", "U+212A"}

\* (?P<library>[^|]+)
LibraryChar(c) == c # Pipe
\* (?P<timestamp>[0-9]+)
TimestampChar(c) == c \in Digit
\* a patron id class of hex digits and hyphens only
PatronIdChar_HexOnly(c) ==
    c = "-" \/ c \in Digit
    \/ c \in {"a", "b", "c", "d", "e", "f", "A", "B", "C", "D", "E", "F"}
\* (?P<patron_id>[-A-Za-z0-9]{36}) under re.IGNORECASE
PatronIdChar(c) == c = "-" \/ c \in AsciiLetter \/ c \in Digit \/ c \in FoldedLetter
PatronIdLen == 36
\* "." (no re.DOTALL)
DotChar(c) == c # Newline

InClass(class, c) ==
    CASE class = "library" -> LibraryChar(c)
      [] class = "timestamp" -> TimestampChar(c)
      [] class = "patron_id" -> PatronIdChar(c)
      [] class = "dot" -> DotChar(c)

\* the length of the longest run of characters of the class in s from position
\* from on: a greedy "[class]*"
RECURSIVE Run(_, _, _)
Run(s, from, class) ==
    IF from <= Len(s) /\ InClass(class, s[from]) THEN 1 + Run(s, from + 1, class) ELSE 0

At(s, i, c) == i <= Len(s) /\ s[i] = c

\* CLIENT_TOKEN_RE.match(s): the groups, or no match.  No field but the last
\* can hold a pipe, so the greedy runs never give anything back.
ClientTokenMatch(s) ==
    LET n1 == Run(s, 1, "library")
        n2 == Run(s, n1 + 2, "timestamp")
        n3 == Run(s, n1 + n2 + 3, "patron_id")
        p4 == n1 + n2 + PatronIdLen + 4
        n4 == Run(s, p4, "dot")
        \* "$": at the end, or before a newline that ends the string
        atEnd == p4 + n4 = Len(s) + 1
                 \/ (p4 + n4 = Len(s) /\ s[Len(s)] = Newline)
    IN  IF /\ n1 >= 1 /\ At(s, n1 + 1, Pipe)
           /\ n2 >= 1 /\ At(s, n1 + n2 + 2, Pipe)
           /\ n3 >= PatronIdLen /\ At(s, p4 - 1, Pipe)
           /\ atEnd
        THEN [matched |-> TRUE,
              groups |-> << SubSeq(s, 1, n1),
                            SubSeq(s, n1 + 2, n1 + n2 + 1),
                            SubSeq(s, n1 + n2 + 3, p4 - 2),
                            SubSeq(s, p4, p4 + n4 - 1) >>]
        ELSE [matched |-> FALSE, groups |-> <<>>]

\* "drm:clientToken" in token
MentionsClientToken(t) == \E i \in 1..Len(t) : t[i] \in {OpenTag, CloseTag, BareWord}
\* token.replace("<drm:clientToken>", "").replace("</drm:clientToken>", "")
IsNoTag(c) == c \notin {OpenTag, CloseTag}
StripTags(t) == IF MentionsClientToken(t) THEN SelectSeq(t, IsNoTag) ELSE t

decompose_token(token) ==
    LET m == ClientTokenMatch(StripTags(token))
    IN  IF ~m.matched
        THEN [raised |-> "InvalidShortClientTokenException", groups |-> <<>>]
        ELSE [raised |-> NoExc, groups |-> m.groups]

----------------------------------------------------------------------------
(* LibraryRegistry.validate_short_client_token *)

\* urljoin(base, path) for a path that starts with "/": the scheme and host of
\* base (its first chunk) with the path
urljoin(base, path) == <<Head(base)>> \o path

\* "|".join(parts)
RECURSIVE Join(_, _)
Join(sep, parts) ==
    IF parts = <<>> THEN <<>>
    ELSE IF Len(parts) = 1 THEN parts[1]
    ELSE parts[1] \o <<sep>> \o Join(sep, Tail(parts))

\* a sign-in response body: a text that holds <user>id</user> (user = id), a
\* text that does not (user = <<>>), or bytes that are not UTF-8
SignInBody(user) == [kind |-> "text", user |-> user]
\* REGISTRY_RESPONSE_RE.search on the decoded body: "[^<]+?" needs a character
UserIdMatch(b) == IF b.kind = "text" /\ Has(b, "user") THEN b.user ELSE <<>>

SignInPath == <<"/AdobeAuth/SignIn">>

validate_short_client_token(url, token, resp, vb) ==
    LET d == decompose_token(token)
        username == Join(Pipe, <<d.groups[1], d.groups[2], d.groups[3]>>)
        payload == <<"<signInRequest method=\"standard\" xmlns=\"http://ns.adobe.com/adept\">",
                     "    <username>">> \o username
                   \o <<"</username>", "    <password>">> \o d.groups[4]
                   \o <<"</password>", "</signInRequest>">>
        post == [method |-> "POST", url |-> urljoin(url, SignInPath), data |-> payload,
                 username |-> username, password |-> d.groups[4]]
        echo1 == <<Msg("echo", "well formed"), Msg("echo", "Requesting")>>
                 \o (IF vb THEN <<Msg("echo", "payload")>> ELSE <<>>)
        \* the verbose block after the POST prints its heading before it
        \* decodes the response
        echo2 == echo1 \o (IF vb THEN <<Msg("echo", "Registry server responded")>>
                           ELSE <<>>)
    IN  IF d.raised # NoExc
        THEN [raised |-> d.raised, posts |-> <<>>, log |-> <<>>]
        ELSE IF DecodeRaises(resp.content)
        THEN [raised |-> "UnicodeDecodeError", posts |-> <<post>>, log |-> echo2]
        ELSE [raised |-> NoExc, posts |-> <<post>>,
              log |-> echo2
                      \o (IF UserIdMatch(resp.content) # <<>>
                          THEN <<Msg("SUCCESS", "Adobe ID for this patron")>>
                          ELSE <<Msg("ERROR", "could not be turned into an Adobe ID")>>)]

----------------------------------------------------------------------------
(* SpecToken: a token string, its decomposition (bare and wrapped) and its   *)
(* validation against the registry                                           *)

Libraries == {<<>>, <<"N", "Y">>, <<"N", Newline>>}
Timestamps == {<<>>, <<"1", "6">>, <<"1", "x">>}
PidChars == {"e", "g", "Z", "-", "7", "_", "U+017F", Newline, BareWord, Pipe, OpenTag}
\* patron-id fields of 35, 36 and 37 elements with one chosen character at
\* either end
Pids ==
    { [i \in 1..n |-> IF i = pos THEN c ELSE "3"] :
        <<n, pos, c>> \in { q \in ((PatronIdLen - 1)..(PatronIdLen + 1))
                                   \X {1, PatronIdLen - 1, PatronIdLen, PatronIdLen + 1}
                                   \X PidChars : q[2] \in {1, q[1]} } }
Signatures == {<<>>, <<"s">>, <<"s", Pipe, "t">>, <<"s", Newline>>, <<Newline, "s">>,
               <<"s", BareWord>>, <<"s", Newline, Newline>>}
Tokens ==
    { l \o <<Pipe>> \o t \o <<Pipe>> \o p \o <<Pipe>> \o g :
        <<l, t, p, g>> \in Libraries \X Timestamps \X Pids \X Signatures }
    \cup { <<>>, <<"N", Pipe, "1">>, <<"N", Pipe, "1", Pipe>> }

RegistryUrl == <<"https://registry.example", "/libraries/qa">>
SignInResponses ==
    [status_code : {200, 500},
     content : {SignInBody(<<"urn:uuid:5">>), SignInBody(<<>>), EmptyBody, BinaryBody}]

NotDone == [kind |-> "none"]
Done(r) == [kind |-> "done"] @@ r

InitToken ==
    /\ net = <<>>
    /\ IdleGet /\ IdleLinks /\ IdleFeed /\ IdleProfile /\ IdleFulfil
    /\ variant = "self-test.py" /\ verbose \in BOOLEAN /\ IdleMain
    /\ tok \in Tokens
    /\ tokres = [plain |-> NotDone, wrapped |-> NotDone, validated |-> NotDone]

Decompose ==
    /\ tokres.plain = NotDone
    /\ tokres' = [tokres EXCEPT !.plain = Done(decompose_token(tok))]
    /\ UNCHANGED <<net, variant, verbose, main, tok, getVars, linkVars, feedVars, profVars, fulVars>>

DecomposeWrapped ==
    /\ tokres.wrapped = NotDone
    /\ tokres' = [tokres EXCEPT
                     !.wrapped = Done(decompose_token(<<OpenTag>> \o tok \o <<CloseTag>>))]
    /\ UNCHANGED <<net, variant, verbose, main, tok, getVars, linkVars, feedVars, profVars, fulVars>>

ValidateToken ==
    /\ tokres.validated = NotDone
    /\ \E resp \in SignInResponses :
         LET v == validate_short_client_token(RegistryUrl, tok, resp, verbose)
         IN  /\ tokres' = [tokres EXCEPT !.validated = Done(v) @@ [resp |-> resp]]
             /\ net' = net \o v.posts
    /\ UNCHANGED <<variant, verbose, main, tok, getVars, linkVars, feedVars, profVars, fulVars>>

NextToken == Decompose \/ DecomposeWrapped \/ ValidateToken

SpecToken == InitToken /\ [][NextToken]_vars

\* The four-field form, stated on the string: the positions of three pipes
\* that cut s into library, timestamp, patron id and a rest.
PipesOf(s) == {i \in 1..Len(s) : s[i] = Pipe}
AllIn(q, S) == \A i \in 1..Len(q) : q[i] \in S
NoneIn(q, S) == \A i \in 1..Len(q) : q[i] \notin S
Cuts(s) ==
    { c \in PipesOf(s) \X PipesOf(s) \X PipesOf(s) :
        /\ c[1] < c[2] /\ c[2] < c[3]
        /\ c[1] > 1 /\ NoneIn(SubSeq(s, 1, c[1] - 1), {Pipe})
        /\ c[2] > c[1] + 1 /\ AllIn(SubSeq(s, c[1] + 1, c[2] - 1), Digit) }
Fields(s, c) ==
    << SubSeq(s, 1, c[1] - 1), SubSeq(s, c[1] + 1, c[2] - 1),
       SubSeq(s, c[2] + 1, c[3] - 1), SubSeq(s, c[3] + 1, Len(s)) >>
HexDigit == Digit \cup {"a", "b", "c", "d", "e", "f", "A", "B", "C", "D", "E", "F"}
\* the tuples the claim as written allows for s
FormHex(s) ==
    { Fields(s, c) : c \in { c \in Cuts(s) :
        /\ c[3] - c[2] - 1 = 36
        /\ AllIn(Fields(s, c)[3], HexDigit \cup {"-"}) } }
\* the tuples the pattern allows: letters and digits in the patron id, and a
\* signature without a line break, one final line break of the string dropped
DropFinalNewline(g) ==
    IF g # <<>> /\ g[Len(g)] = Newline THEN SubSeq(g, 1, Len(g) - 1) ELSE g
FormRe(s) ==
    { [Fields(s, c) EXCEPT ![4] = DropFinalNewline(@)] : c \in { c \in Cuts(s) :
        /\ c[3] - c[2] - 1 = 36
        /\ AllIn(Fields(s, c)[3], AsciiLetter \cup Digit \cup FoldedLetter \cup {"-"})
        /\ NoneIn(DropFinalNewline(Fields(s, c)[4]), {Newline}) } }
\* the length of the patron-id field, when s has three pipes
PatronFieldLens(s) ==
    { c[3] - c[2] - 1 : c \in { c \in PipesOf(s) \X PipesOf(s) \X PipesOf(s) :
        /\ c[1] < c[2] /\ c[2] < c[3]
        /\ \A i \in PipesOf(s) : i >= c[1] /\ (i <= c[2] \/ i >= c[3]) } }
Unwrapped == SelectSeq(tok, IsNoTag)

\* C5 as written: the tuple is returned exactly for the strings whose patron
\* id is 36 hex digits or hyphens and whose signature is all of the remainder;
\* every other string raises; wrapping changes nothing.
C5_HexPatronIdForm ==
    tokres.plain # NotDone =>
        LET s == IF MentionsClientToken(tok) THEN Unwrapped ELSE tok
        IN  /\ tokres.plain.raised = NoExc => tokres.plain.groups \in FormHex(s)
            /\ tokres.plain.raised # NoExc => FormHex(s) = {}

\* C5 as amended: the tuple is returned exactly for the strings of the form
\* library|timestamp|patron_id|rest with a patron id of 36 letters, digits or
\* hyphens and a rest without a line break other than one final one, which is
\* dropped from signature_hash; every other string (a patron-id field of 35 or
\* 37 characters among them) raises InvalidShortClientTokenException; the
\* wrapped token decomposes as the bare one.
C5_TokenForm ==
    /\ tokres.plain # NotDone =>
        LET s == IF MentionsClientToken(tok) THEN Unwrapped ELSE tok
        IN  /\ tokres.plain.raised = NoExc => tokres.plain.groups \in FormRe(s)
            /\ tokres.plain.raised # NoExc =>
                   /\ FormRe(s) = {}
                   /\ tokres.plain.raised = "InvalidShortClientTokenException"
            /\ PatronFieldLens(s) \cap {35, 37} # {} => tokres.plain.raised # NoExc
    /\ (tokres.plain # NotDone /\ tokres.wrapped # NotDone) =>
           tokres.wrapped = tokres.plain

\* a well-formed token with a letter that is no hex digit in its patron id
\* has been decomposed, bare and wrapped
C5_Witness ==
    /\ tokres.plain # NotDone /\ tokres.wrapped # NotDone
    /\ tokres.plain.raised = NoExc
    /\ \E i \in 1..Len(tokres.plain.groups[3]) : tokres.plain.groups[3][i] = "g"

\* C6: a token that does not decompose raises InvalidShortClientTokenException
\* and no POST is made; one that does decompose leads to exactly one POST to
\* /AdobeAuth/SignIn at the registry's host, with username
\* library|timestamp|patron_id and password signature_hash, and whatever the
\* response, the call ends in a logged SUCCESS or ERROR without raising.
C6_VerifyAfterDecompose ==
    tokres.validated # NotDone =>
        LET v == tokres.validated
            s == IF MentionsClientToken(tok) THEN Unwrapped ELSE tok
        IN  /\ FormRe(s) = {} =>
                   /\ v.raised = "InvalidShortClientTokenException"
                   /\ net = <<>>
            /\ FormRe(s) # {} =>
                   /\ Len(net) = 1
                   /\ net[1].method = "POST"
                   /\ net[1].url = <<"https://registry.example", "/AdobeAuth/SignIn">>
                   /\ \E f \in FormRe(s) :
                          /\ net[1].username = f[1] \o <<Pipe>> \o f[2] \o <<Pipe>> \o f[3]
                          /\ net[1].password = f[4]
                   /\ v.raised = NoExc
                   /\ v.log[Len(v.log)].level \in {"SUCCESS", "ERROR"}

----------------------------------------------------------------------------
(* PatronProfileDocument.validate *)

ACS_SCHEME == <<"http://librarysimplified.org/terms/drm/scheme/ACS">>

\* The loop over data['drm'] from entry i on: the index of the entry at which
\* it breaks (0: it runs to the end), the vendor and token then held, and the
\* schemes warned about, in order.
ScanDrm_NoSchemeTest(ds, i) ==
    LET hits == {k \in i..Len(ds) : /\ Truthy(GetOr(ds[k], "drm:vendor", None))
                                    /\ Truthy(GetOr(ds[k], "drm:clientToken", None))}
        k == IF hits = {} THEN 0 ELSE CHOOSE k \in hits : \A m \in hits : k <= m
    IN  [adopted |-> k, warned |-> <<>>,
         vendor |-> IF k = 0 THEN None ELSE ds[k]["drm:vendor"],
         token |-> IF k = 0 THEN None ELSE ds[k]["drm:clientToken"]]

RECURSIVE ScanDrm(_, _)
ScanDrm(ds, i) ==
    IF i > Len(ds)
    THEN [adopted |-> 0, vendor |-> None, token |-> None, warned |-> <<>>]
    ELSE LET drm == ds[i]
             vendor == GetOr(drm, "drm:vendor", None)
             scheme == GetOr(drm, "drm:scheme", None)
             token == GetOr(drm, "drm:clientToken", None)
         IN  IF scheme # ACS_SCHEME
             THEN LET r == ScanDrm(ds, i + 1)
                  IN  [r EXCEPT !.warned = <<scheme>> \o @]
             ELSE IF Truthy(vendor) /\ Truthy(token)
             THEN [adopted |-> i, vendor |-> vendor, token |-> token, warned |-> <<>>]
             ELSE ScanDrm(ds, i + 1)

WarnScheme(scheme) == [level |-> "warn", text |-> "Unknown DRM scheme seen", arg |-> scheme]
Map(q, F(_)) == [i \in 1..Len(q) |-> F(q[i])]

\* the end of validate(): the report, and in self-test.py the call
\* registry.validate_short_client_token(token), whose outcome is t
validate_report(none, log, r, v, t) ==
    IF r.adopted = 0
    THEN [none EXCEPT !.scanned = TRUE]
         @@ [raised |-> NoExc,
             log |-> Append(log, Msg("warn", "No Adobe token found."))]
    ELSE IF v = "model.py"
    THEN [none EXCEPT !.scanned = TRUE]
         @@ [raised |-> NoExc,
             log |-> Append(log, Msg("p", "Adobe token found"))]
    ELSE [none EXCEPT !.scanned = TRUE, !.validated = <<r.token>>,
                      !.posts = t.posts]
         @@ [raised |-> t.raised,
             log |-> Append(log, Msg("p", "Adobe token found")) \o t.log]

\* validate() once the scan of data['drm'] has given r
validate_scanned(none, log, r, v, registryUrl, postResp, vb) ==
    validate_report(none, log \o Map(r.warned, WarnScheme), r, v,
                    validate_short_client_token(registryUrl, r.token, postResp, vb))

\* validate() once self.get() has given g
validate_fetched(g, v, registryUrl, postResp, vb) ==
    LET none == [doc |-> g.doc, fetched |-> g.fetched, scanned |-> FALSE,
                 validated |-> <<>>, posts |-> <<>>]
    IN  IF g.raised # NoExc
        THEN none @@ [raised |-> g.raised, log |-> g.log]
        ELSE IF JsonLoadsRaises(g.ret)
        THEN none @@ [raised |-> "JSONDecodeError", log |-> g.log]
        ELSE validate_scanned(
                 none, g.log,
                 IF Has(g.ret.value, "drm") THEN ScanDrm(g.ret.value.drm, 1)
                 ELSE [adopted |-> 0, vendor |-> None, token |-> None, warned |-> <<>>],
                 v, registryUrl, postResp, vb)

\* validate(): the GET of the document, json.loads, the scan, and in
\* self-test.py the call of registry.validate_short_client_token(token)
PatronProfileDocument_validate(d, v, registryUrl, resp, postResp, vb) ==
    validate_fetched(MakesRequests_get(d, resp, vb), v, registryUrl, postResp, vb)

----------------------------------------------------------------------------
(* SpecProfile: a patron profile on the server and one validate() of it *)

MaxDrm == 3

Token1 == <<"N", Pipe, "1", Pipe>> \o [i \in 1..PatronIdLen |-> "3"] \o <<Pipe, "s">>
Token2 == <<"M", Pipe, "2", Pipe>> \o [i \in 1..PatronIdLen |-> "e"] \o <<Pipe>>
TokenBad == <<"N", Pipe, "1", Pipe, "3", Pipe, "s">>

Vendor(x) == "drm:vendor" :> x
Scheme(x) == "drm:scheme" :> x
ClientToken(x) == "drm:clientToken" :> x
Other == <<"http://librarysimplified.org/terms/drm/scheme/Other">>
DrmEntries ==
    { Scheme(ACS_SCHEME) @@ Vendor(<<"V">>) @@ ClientToken(Token1),
      Scheme(ACS_SCHEME) @@ Vendor(<<"W">>) @@ ClientToken(Token2),
      Scheme(ACS_SCHEME) @@ Vendor(<<"V">>) @@ ClientToken(TokenBad),
      Scheme(ACS_SCHEME) @@ Vendor(<<"V">>) @@ ClientToken(<<>>),
      Scheme(ACS_SCHEME) @@ Vendor(<<"V">>),
      Scheme(ACS_SCHEME) @@ Vendor(<<>>) @@ ClientToken(Token1),
      Scheme(ACS_SCHEME) @@ ClientToken(Token1),
      Scheme(Other) @@ Vendor(<<"V">>) @@ ClientToken(Token1),
      Scheme(Other),
      Vendor(<<"V">>) @@ ClientToken(Token2) }
Profiles == {[other |-> 1]} \cup {[drm |-> ds] : ds \in SeqsUpTo(DrmEntries, MaxDrm)}

InitProfile ==
    /\ net = <<>>
    /\ IdleGet /\ IdleLinks /\ IdleFeed /\ IdleToken /\ IdleFulfil
    /\ variant \in Variants /\ verbose \in BOOLEAN /\ IdleMain
    /\ profile \in Profiles
    /\ pres = [kind |-> "none"]
    /\ pdoc = NewDocument("PatronProfileDocument", <<"https://cm.example", "/profile">>,
                          <<"user", ":", "pw">>, None)

ValidateProfile ==
    /\ pres.kind = "none"
    /\ \E content \in {JsonBody(profile), TextBody},
          ct \in {None, PATRON_PROFILE_DOCUMENT},
          postResp \in [status_code : {200},
                        content : {SignInBody(<<"urn:uuid:5">>), SignInBody(<<>>),
                                   BinaryBody}] :
         \E r \in {PatronProfileDocument_validate(
                     pdoc, variant, RegistryUrl,
                     [status_code |-> 200, content_type |-> ct, content |-> content],
                     postResp, verbose)} :
             /\ pdoc' = r.doc
             /\ pres' = [kind |-> "done", scanned |-> r.scanned, raised |-> r.raised,
                         log |-> r.log, validated |-> r.validated]
             /\ net' = (IF r.fetched THEN <<HttpGet(pdoc)>> ELSE <<>>) \o r.posts
    /\ UNCHANGED <<variant, verbose, main, profile, getVars, linkVars, feedVars, tokVars, fulVars>>

NextProfile == ValidateProfile

SpecProfile == InitProfile /\ [][NextProfile]_vars

\* the drm entries the scan ran over, and the first that qualifies
DrmOf(json) == IF Has(json, "drm") THEN json.drm ELSE <<>>
Qualifies(e) ==
    /\ "drm:scheme" \in DOMAIN e
    /\ e["drm:scheme"] = <<"http://librarysimplified.org/terms/drm/scheme/ACS">>
    /\ "drm:vendor" \in DOMAIN e /\ e["drm:vendor"] # <<>>
    /\ "drm:clientToken" \in DOMAIN e /\ e["drm:clientToken"] # <<>>
UnknownScheme(e) ==
    ~("drm:scheme" \in DOMAIN e
      /\ e["drm:scheme"] = <<"http://librarysimplified.org/terms/drm/scheme/ACS">>)
IsSchemeWarning(m) == m.text = "Unknown DRM scheme seen"
Texts(log) == {log[i].text : i \in 1..Len(log)}

\* C7 as written: skipped entries are warned about, the first qualifying
\* entry is adopted, and the token validator is called exactly once with its
\* token, whichever script runs; without a qualifying entry "No Adobe token
\* found." is printed and the validator is not called.
C7_ValidatorCalledOnce ==
    (pres.kind = "done" /\ pres.scanned) =>
        LET ds == DrmOf(profile)
            k == FirstIndex(ds, Qualifies)
        IN  /\ k = 0 => /\ "No Adobe token found." \in Texts(pres.log)
                        /\ pres.validated = <<>>
            /\ k # 0 => pres.validated = <<ds[k]["drm:clientToken"]>>

\* C7 as amended: once the profile has been fetched and parsed, the entries
\* are scanned in order: each entry met with a scheme other than the ACS one is
\* skipped with a warning and the scan goes on; the first entry with the ACS
\* scheme and a non-empty vendor and token is adopted and ends the scan; in
\* self-test.py the token validator is then called exactly once, with that
\* entry's token, and in model.py the adoption is printed and no validator is
\* called; when no entry qualifies (or drm is absent) "No Adobe token found."
\* is warned and the validator is never called.
C7_FirstQualifyingEntryAdopted ==
    (pres.kind = "done" /\ pres.scanned) =>
        LET ds == DrmOf(profile)
            k == FirstIndex(ds, Qualifies)
            met == IF k = 0 THEN ds ELSE SubSeq(ds, 1, k - 1)
            SchemeOf(e) == IF "drm:scheme" \in DOMAIN e THEN e["drm:scheme"] ELSE None
            ArgOf(m) == m.arg
        IN  /\ Map(SelectSeq(pres.log, IsSchemeWarning), ArgOf)
                  = Map(SelectSeq(met, UnknownScheme), SchemeOf)
            /\ k = 0 => /\ "No Adobe token found." \in Texts(pres.log)
                        /\ pres.validated = <<>>
                        /\ \A i \in 1..Len(net) : net[i].method # "POST"
            /\ k # 0 => /\ "No Adobe token found." \notin Texts(pres.log)
                        /\ "Adobe token found" \in Texts(pres.log)
                        /\ variant = "self-test.py" =>
                               pres.validated = <<ds[k]["drm:clientToken"]>>
                        /\ variant = "model.py" => pres.validated = <<>>

\* an entry of another scheme was skipped, a later one adopted and its token
\* handed to the validator, with a further entry left unscanned after it
C7_Witness ==
    /\ pres.kind = "done" /\ pres.scanned /\ variant = "self-test.py"
    /\ Has(profile, "drm") /\ Len(profile.drm) = 3
    /\ UnknownScheme(profile.drm[1]) /\ Qualifies(profile.drm[2])
    /\ pres.validated = <<Token2>>
    /\ \E i \in 1..Len(pres.log) : IsSchemeWarning(pres.log[i])

----------------------------------------------------------------------------
(* Fulfillment.fulfill and the validate() of the three handler classes *)

\* a fetched ACSM file: markup with or without a fulfillmentToken element
AcsmBody(hasToken) == [kind |-> "xml", tags |-> <<>>, fulfillmentToken |-> hasToken]
\* BeautifulSoup(result, "xml").find('fulfillmentToken')
FindFulfillmentToken(b) == b.kind = "xml" /\ Has(b, "fulfillmentToken") /\ b.fulfillmentToken

Call(url, name, type, auth, depth) ==
    [url |-> url, name |-> name, type |-> type, auth |-> auth, depth |-> depth]

Returns(log) == [raised |-> NoExc, log |-> log, calls |-> <<>>]
Raises(exc, log) == [raised |-> exc, log |-> log, calls |-> <<>>]

\* Fulfillment.validate
Fulfillment_validate(result) == Returns(<<>>)

\* ACSMFulfillment.validate
ACSMFulfillment_validate(result) ==
    IF FindFulfillmentToken(result)
    THEN Returns(<<Msg("p", "Found fulfillmentToken tag")>>)
    ELSE Returns(<<Msg("warn", "No fulfillmentToken tag")>>)

\* AudiobookJSONFulfillment.validate: calls holds the Fulfillment.fulfill call
\* it makes.  Without readingOrder, model.py returns after the error;
\* self-test.py goes on to parsed['readingOrder'].
AudiobookJSON_validate(v, result, depth) ==
    IF JsonLoadsRaises(result) THEN Raises("JSONDecodeError", <<>>)
    ELSE LET parsed == result.value
             e1 == <<Msg("error", "readingOrder not present in audiobook manifest")>>
         IN  IF ~Has(parsed, "readingOrder")
             THEN IF v = "model.py" THEN Returns(e1) ELSE Raises("KeyError", e1)
             ELSE LET order == parsed.readingOrder
                      l2 == <<Msg("p", "Items in reading order"),
                              Msg("p", "Trying to fulfill first item.")>>
                  IN  IF order = <<>>
                      THEN Returns(<<Msg("error", "No items in reading order.")>>)
                      ELSE IF ~Has(order[1], "href") THEN Raises("KeyError", l2)
                      ELSE [raised |-> NoExc, log |-> l2,
                            calls |-> <<Call(order[1].href, "first audiobook item",
                                             GetOr(order[1], "type", None),
                                             None, depth + 1)>>]

\* Fulfillment.fulfill(url, name, type, auth) when the transport delivers
\* resp: the handler instance, its GET, and what its validate() did
fulfill(reg, v, c, resp, vb) ==
    LET fulfillment_class == FulfillClass(reg, c.type)
        fulfillment == NewDocument(fulfillment_class, c.url, c.auth,
                                   IF Truthy(c.type) THEN c.type ELSE None)
        g == MakesRequests_get(fulfillment, resp, vb)
        r == IF g.raised # NoExc THEN Raises(g.raised, <<>>)
             ELSE CASE fulfillment_class = "Fulfillment" -> Fulfillment_validate(g.ret)
                    [] fulfillment_class = "ACSMFulfillment" ->
                          ACSMFulfillment_validate(g.ret)
                    [] fulfillment_class = "AudiobookJSONFulfillment" ->
                          AudiobookJSON_validate(v, g.ret, c.depth)
    IN  [kind |-> "fulfill", cls |-> fulfillment_class, call |-> c,
         request |-> HttpGet(fulfillment), requestLog |-> g.log,
         fetchRaised |-> g.raised, body |-> g.doc.representation,
         raised |-> r.raised, log |-> r.log, calls |-> r.calls]

----------------------------------------------------------------------------
(* Spec: Bookshelf.validate_entry on one entry, and the chain of             *)
(* Fulfillment.fulfill calls under each of its fulfillment links.  A step is *)
(* one call of fulfill() up to the call it makes in turn (or its return);    *)
(* stack is the Python call stack.                                           *)

MaxShelfLinks == 2
MaxDepth == 2

LinkTypes ==
    { ACSM, AUDIOBOOK_JSON, ACSM \o <<";charset=utf-8">>, <<"application/vnd.adobe">>,
      <<"application/epub+zip">> }
\* <link rel="http://opds-spec.org/acquisition"> elements
ShelfLinks ==
    {[href |-> <<"https://cm.example", "/a">>, type |-> t] : t \in LinkTypes}
    \cup {[href |-> <<"https://cm.example", "/a">>], [type |-> ACSM]}
Items ==
    { [href |-> <<"https://cm.example", "/a">>, type |-> ACSM],
      [href |-> <<"https://cdn.example", "/b">>, type |-> AUDIOBOOK_JSON],
      [href |-> <<"https://cdn.example", "/b">>],
      [type |-> ACSM] }
Manifests ==
    {[metadata |-> <<>>], [readingOrder |-> <<>>]}
    \cup {[readingOrder |-> <<i>>] : i \in Items}
    \cup {[readingOrder |-> <<[href |-> <<"https://cdn.example", "/b">>,
                               type |-> AUDIOBOOK_JSON],
                              [href |-> <<"https://cm.example", "/a">>, type |-> ACSM]>>]}
FulfilBodies ==
    {EmptyBody, AcsmBody(TRUE), AcsmBody(FALSE)} \cup {JsonBody(m) : m \in Manifests}
FulfilResponses ==
    [status_code : {200}, content_type : {None, AUDIOBOOK_JSON}, content : FulfilBodies]

Init ==
    /\ net = <<>>
    /\ IdleGet /\ IdleLinks /\ IdleFeed /\ IdleToken /\ IdleProfile
    /\ variant \in Variants /\ verbose \in BOOLEAN /\ IdleMain
    /\ REGISTRY = LoadedRegistry
    /\ \E auth \in Credentials, title \in {None, <<"T">>},
          links \in SeqsUpTo(ShelfLinks, MaxShelfLinks) :
            shelf = [cls |-> "Bookshelf", auth |-> auth, title |-> title,
                     links |-> links, started |-> FALSE]
    /\ stack = <<>> /\ pending = <<>>
    /\ done = [kind |-> "none"] /\ raised = NoExc

Running == raised = NoExc

\* Bookshelf.validate_entry up to its loop: entry.find('title').string, and
\* the warning when the entry has no fulfillment link
StartEntry ==
    /\ Running /\ ~shelf.started
    /\ shelf' = [shelf EXCEPT !.started = TRUE]
    /\ raised' = IF shelf.title = None THEN "AttributeError" ELSE NoExc
    /\ done' = IF shelf.title # None /\ shelf.links = <<>>
               THEN [kind |-> "warn", text |-> "No fulfillment links found"]
               ELSE done
    /\ UNCHANGED <<net, variant, verbose, main, REGISTRY, stack, pending,
                   getVars, linkVars, feedVars, tokVars, profVars>>

\* one round of the loop of validate_entry: link['type'], link['href'] and
\* the call Fulfillment.fulfill(href, name, type, self.auth)
NextLink ==
    /\ Running /\ shelf.started /\ stack = <<>> /\ pending = <<>>
    /\ shelf.links # <<>>
    /\ LET link == Head(shelf.links)
       IN  IF Has(link, "type") /\ Has(link, "href")
           THEN /\ pending' = <<Call(link.href, "fulfillment of", link.type, shelf.auth, 0)>>
                /\ raised' = NoExc
           ELSE /\ pending' = <<>>
                /\ raised' = "KeyError"
    /\ shelf' = [shelf EXCEPT !.links = Tail(@)]
    /\ UNCHANGED <<net, variant, verbose, main, REGISTRY, stack, done,
                   getVars, linkVars, feedVars, tokVars, profVars>>

\* the next call of Fulfillment.fulfill
Fulfill ==
    /\ Running /\ pending # <<>>
    /\ Head(pending).depth <= MaxDepth
    /\ \E resp \in FulfilResponses :
         LET f == fulfill(REGISTRY, variant, Head(pending), resp, verbose)
         IN  /\ net' = Append(net, f.request)
             /\ done' = f
             /\ raised' = f.raised
             /\ IF f.raised = NoExc /\ f.calls # <<>>
                THEN /\ stack' = Append(stack, [f EXCEPT !.calls = Tail(pending)])
                     /\ pending' = f.calls
                ELSE /\ stack' = stack
                     /\ pending' = Tail(pending)
    /\ UNCHANGED <<variant, verbose, main, REGISTRY, shelf,
                   getVars, linkVars, feedVars, tokVars, profVars>>

\* the innermost validate() has made its calls and returns to its caller
Return ==
    /\ Running /\ pending = <<>> /\ stack # <<>>
    /\ pending' = stack[Len(stack)].calls
    /\ stack' = SubSeq(stack, 1, Len(stack) - 1)
    /\ UNCHANGED <<net, variant, verbose, main, REGISTRY, shelf, done, raised,
                   getVars, linkVars, feedVars, tokVars, profVars>>

Next == StartEntry \/ NextLink \/ Fulfill \/ Return

Spec == Init /\ [][Next]_vars

----------------------------------------------------------------------------
(* Properties of Spec *)

\* the last step was AudiobookJSONFulfillment.validate on a fetched manifest
\* that parsed as a JSON object
ManifestValidated ==
    /\ done.kind = "fulfill" /\ done.cls = "AudiobookJSONFulfillment"
    /\ done.fetchRaised = NoExc /\ done.body.kind = "json"
Logged(log, level, text) == \E i \in 1..Len(log) : log[i] = Msg(level, text)

\* C8: AudiobookJSONFulfillment.validate on a manifest without readingOrder
\* reports the error "readingOrder not present ..." and ends without raising
\* and without a further fulfillment; on a manifest with an empty
\* readingOrder it reports "No items in reading order." and dispatches
\* nothing; in model.py and in self-test.py alike.
C8_MissingOrEmptyReadingOrder ==
    ManifestValidated =>
        LET parsed == done.body.value
        IN  /\ ~Has(parsed, "readingOrder") =>
                /\ done.raised = NoExc /\ done.calls = <<>>
                /\ Logged(done.log, "error",
                          "readingOrder not present in audiobook manifest")
            /\ (Has(parsed, "readingOrder") /\ parsed.readingOrder = <<>>) =>
                /\ done.raised = NoExc /\ done.calls = <<>>
                /\ Logged(done.log, "error", "No items in reading order.")

\* C9: for a manifest with a non-empty readingOrder exactly one recursive
\* Fulfillment.fulfill is made, for the first item's href and type, and it
\* carries no credentials; the requests that carry the bookshelf's
\* credentials are those of the first-level calls of validate_entry.
C9_OneUncredentialedRecursion ==
    /\ (ManifestValidated /\ Has(done.body.value, "readingOrder")
        /\ done.body.value.readingOrder # <<>>) =>
            LET item1 == done.body.value.readingOrder[1]
            IN  /\ Len(done.calls) = 1
                /\ Has(item1, "href") /\ done.calls[1].url = item1.href
                /\ done.calls[1].type = GetOr(item1, "type", None)
                /\ done.calls[1].auth = None
    /\ done.kind = "fulfill" =>
            /\ done.request.auth = done.call.auth
            /\ done.call.depth > 0 => done.request.auth = None
            /\ done.call.depth = 0 => done.request.auth = shelf.auth

\* C10: Fulfillment.fulfill selects the handler by equality of the type
\* string with a registered MEDIA_TYPE: the ACSM type gives ACSMFulfillment,
\* the audiobook manifest type gives AudiobookJSONFulfillment, any other
\* value (a registered type with a parameter, a prefix of one, no type) gives
\* the generic Fulfillment, whose validate() reports nothing, raises nothing
\* and calls nothing; REGISTRY holds these two entries at every moment.
C10_ExactTypeDispatch ==
    /\ DOMAIN REGISTRY = { <<"application/vnd.adobe", ".adept+xml">>,
                           <<"application/audiobook", "+json">> }
    /\ REGISTRY[<<"application/vnd.adobe", ".adept+xml">>] = "ACSMFulfillment"
    /\ REGISTRY[<<"application/audiobook", "+json">>] = "AudiobookJSONFulfillment"
    /\ done.kind = "fulfill" =>
         /\ done.cls =
              CASE done.call.type = <<"application/vnd.adobe", ".adept+xml">> ->
                      "ACSMFulfillment"
                [] done.call.type = <<"application/audiobook", "+json">> ->
                      "AudiobookJSONFulfillment"
                [] OTHER -> "Fulfillment"
         /\ done.cls = "Fulfillment" =>
              /\ done.log = <<>> /\ done.calls = <<>>
              /\ done.raised = done.fetchRaised

\* the second fulfillment of the run had the ACSM type plus a parameter, went
\* to the generic handler and was fetched
C10_Witness ==
    /\ done.kind = "fulfill" /\ done.cls = "Fulfillment"
    /\ done.call.type = ACSM \o <<";charset=utf-8">>
    /\ done.fetchRaised = NoExc
    /\ Len(net) = 2

----------------------------------------------------------------------------
(* LibraryRegistry.__init__, LibraryRegistry.authentication_document and     *)
(* AuthenticationDocument.__init__ (self-test.py)                            *)

\* self.libraries: title -> catalog, a later catalog replacing an earlier one
\* of the same title
LibrariesOf(catalogs) ==
    [t \in {catalogs[i].metadata.title : i \in 1..Len(catalogs)} |->
        catalogs[CHOOSE i \in 1..Len(catalogs) :
                    /\ catalogs[i].metadata.title = t
                    /\ \A j \in (i + 1)..Len(catalogs) : catalogs[j].metadata.title # t]]

\* LibraryRegistry(url): the GET of the registry, json.loads, and the loop
\* over libraries['catalogs']
LibraryRegistry_init(url, resp, vb) ==
    LET d == NewDocument("LibraryRegistry", url, None, None)
        g == MakesRequests_get(d, resp, vb)
    IN  IF g.raised # NoExc THEN [raised |-> g.raised, libraries |-> <<>>]
        ELSE IF JsonLoadsRaises(g.ret)
        THEN [raised |-> "JSONDecodeError", libraries |-> <<>>]
        ELSE IF ~Has(g.ret.value, "catalogs")
        THEN [raised |-> "KeyError", libraries |-> <<>>]
        ELSE IF \E i \in 1..Len(g.ret.value.catalogs) :
                   \/ ~Has(g.ret.value.catalogs[i], "metadata")
                   \/ ~Has(g.ret.value.catalogs[i].metadata, "title")
        THEN [raised |-> "KeyError", libraries |-> <<>>]
        ELSE [raised |-> NoExc, libraries |-> LibrariesOf(g.ret.value.catalogs)]

\* the loop of authentication_document over the library's links, up to its
\* break: link['type'] and link['href'] raise KeyError when absent
RECURSIVE AuthenticationLink(_)
AuthenticationLink(links) ==
    IF links = <<>> THEN [raised |-> NoExc, href |-> None]
    ELSE IF ~Has(Head(links), "type") THEN [raised |-> "KeyError", href |-> None]
    ELSE IF Head(links).type = AUTHENTICATION_DOCUMENT
    THEN IF Has(Head(links), "href") THEN [raised |-> NoExc, href |-> Head(links).href]
         ELSE [raised |-> "KeyError", href |-> None]
    ELSE AuthenticationLink(Tail(links))

\* LibraryRegistry.authentication_document(name) up to the constructor call
\* it ends with: found says whether a document is constructed, url from what
authentication_document(libraries, name) ==
    IF name = None
    THEN [raised |-> "AttributeError", found |-> FALSE, url |-> None, log |-> <<>>]
    ELSE IF startswith(name, <<"http">>)
    THEN [raised |-> NoExc, found |-> TRUE, url |-> name, log |-> <<>>]
    ELSE IF name \notin DOMAIN libraries
    THEN [raised |-> NoExc, found |-> FALSE, url |-> None, log |-> <<>>]
    ELSE IF ~Has(libraries[name], "links")
    THEN [raised |-> "KeyError", found |-> FALSE, url |-> None, log |-> <<>>]
    ELSE LET l == AuthenticationLink(libraries[name].links)
         IN  IF l.raised # NoExc
             THEN [raised |-> l.raised, found |-> FALSE, url |-> None, log |-> <<>>]
             ELSE [raised |-> NoExc, found |-> TRUE, url |-> l.href,
                   log |-> IF l.href = None
                           THEN <<Msg("error", "No authentication link found for library")>>
                           ELSE <<>>]

\* AuthenticationDocument(url): requests refuses a URL of None before anything
\* is sent (MissingSchema); otherwise the GET and json.loads
AuthenticationDocument_init(url, resp, vb) ==
    IF url = None THEN [raised |-> "MissingSchema", fetched |-> FALSE, data |-> <<>>]
    ELSE LET d == NewDocument("AuthenticationDocument", url, None, None)
             g == MakesRequests_get(d, resp, vb)
         IN  IF g.raised # NoExc
             THEN [raised |-> g.raised, fetched |-> TRUE, data |-> <<>>]
             ELSE IF JsonLoadsRaises(g.ret)
             THEN [raised |-> "JSONDecodeError", fetched |-> TRUE, data |-> <<>>]
             ELSE [raised |-> NoExc, fetched |-> TRUE, data |-> g.ret.value]

\* sorted(registry.libraries.keys())
SortedKeys(libraries) ==
    CHOOSE q \in [1..Cardinality(DOMAIN libraries) -> DOMAIN libraries] :
        \A i, j \in DOMAIN q : i < j => StrLess(q[i], q[j])

----------------------------------------------------------------------------
(* SpecMain: one run of main() of self-test.py.  main.pc is the statement    *)
(* main() is at; the validation of a bookshelf entry is the chain of steps   *)
(* of Spec.  An exception nobody catches ends the process with status 1.     *)

MaxShelfEntries == 2

PROFILE_REL == <<"http://librarysimplified.org/terms/rel/user-profile">>
SHELF_REL == <<"http://opds-spec.org/shelf">>
ACQUISITION_REL == <<"http://opds-spec.org/acquisition">>

AuthUrl == <<"http", "://cm.example/auth">>
\* --library: a title, a URL, or None when the option is not given
LibraryArgs == {<<"A">>, <<"C">>, AuthUrl, None}
HTTPBasicAuth(username, password) == username \o <<":">> \o password

Catalog(title, links) == [metadata |-> [title |-> title], links |-> links]
AuthLink == [type |-> AUTHENTICATION_DOCUMENT, href |-> AuthUrl]
OtherLink == [type |-> OPDS_1, href |-> <<"https://cm.example", "/feed">>]
RegistryBodies ==
    { TextBody, JsonBody([other |-> 1]),
      JsonBody([catalogs |-> <<Catalog(<<"A">>, <<AuthLink>>)>>]),
      JsonBody([catalogs |-> <<Catalog(<<"B">>, <<AuthLink>>),
                               Catalog(<<"A">>, <<OtherLink, AuthLink>>)>>]),
      JsonBody([catalogs |-> <<Catalog(<<"A">>, <<OtherLink>>)>>]),
      JsonBody([catalogs |-> <<Catalog(<<"A">>, <<[href |-> AuthUrl]>>)>>]) }

DocLink(rel, path) == [rel |-> rel, href |-> <<"https://cm.example", path>>]
StartLink == [rel |-> <<"start">>, type |-> OPDS_1, href |-> <<"https://cm.example", "/feed">>]
AuthDocLinks ==
    { <<>>, <<StartLink>>, <<DocLink(PROFILE_REL, "/profile"), StartLink>>,
      <<DocLink(SHELF_REL, "/shelf"), StartLink>>,
      <<DocLink(PROFILE_REL, "/profile"), DocLink(SHELF_REL, "/shelf")>>,
      <<DocLink(PROFILE_REL, "/profile"), DocLink(SHELF_REL, "/shelf"), StartLink>> }
AuthDocBodies == {TextBody, JsonBody([other |-> 1])} \cup {JsonBody([links |-> l]) : l \in AuthDocLinks}

MainProfiles ==
    { [other |-> 1], [drm |-> <<Scheme(Other)>>],
      [drm |-> <<Scheme(Other),
                 Scheme(ACS_SCHEME) @@ Vendor(<<"V">>) @@ ClientToken(Token1)>>],
      [drm |-> <<Scheme(ACS_SCHEME) @@ Vendor(<<"V">>) @@ ClientToken(TokenBad)>>] }
ProfileBodies == {TextBody} \cup {JsonBody(p) : p \in MainProfiles}

AcquisitionLink(type) ==
    [rel |-> ACQUISITION_REL, type |-> type, href |-> <<"https://cm.example", "/a">>]
ShelfEntries ==
    { [title |-> <<"T">>, links |-> <<>>],
      [title |-> None, links |-> <<AcquisitionLink(ACSM)>>],
      [title |-> <<"T">>, links |-> <<[rel |-> <<"alternate">>], AcquisitionLink(ACSM)>>],
      [title |-> <<"T">>, links |-> <<AcquisitionLink(AUDIOBOOK_JSON)>>],
      [title |-> <<"T">>,
       links |-> <<[rel |-> ACQUISITION_REL, href |-> <<"https://cm.example", "/a">>]>>] }
ShelfBodies == {EmptyBody} \cup {XmlBody(es) : es \in SeqsUpTo(ShelfEntries, MaxShelfEntries)}
CatalogBodies == {EmptyBody, XmlBody(<<>>), XmlBody(<<[title |-> <<"T">>, links |-> <<>>]>>)}

MainResponses(bodies) ==
    [status_code : {200}, content_type : {None, OPDS_1}, content : bodies]

\* entry.find_all('link', rel="http://opds-spec.org/acquisition")
IsAcquisitionLink(l) == GetOr(l, "rel", None) = ACQUISITION_REL
AcquisitionLinks(entry) == SelectSeq(entry.links, IsAcquisitionLink)

NoEntry == [cls |-> "Bookshelf", auth |-> None, title |-> <<"T">>, links |-> <<>>,
            started |-> TRUE]

InitMain ==
    /\ net = <<>>
    /\ IdleGet /\ IdleLinks /\ IdleFeed /\ IdleToken /\ IdleProfile
    /\ variant = "self-test.py" /\ verbose \in BOOLEAN
    /\ REGISTRY = LoadedRegistry
    /\ shelf = NoEntry /\ stack = <<>> /\ pending = <<>>
    /\ done = [kind |-> "none"] /\ raised = NoExc
    /\ \E library \in LibraryArgs :
         main = [pc |-> "registry", library |-> library, libraries |-> <<>>,
                 auth |-> None, todo |-> <<>>, out |-> <<>>,
                 exit |-> "running", exc |-> NoExc, at |-> "registry"]

\* an exception leaves main()
Crash(exc) == [main EXCEPT !.pc = "exit", !.exit = 1, !.exc = exc, !.at = main.pc]
Goto(pc) == [main EXCEPT !.pc = pc]

\* registry = LibraryRegistry(registry_url)
ConnectRegistry ==
    /\ main.pc = "registry"
    /\ \E resp \in MainResponses(RegistryBodies) :
         \E r \in {LibraryRegistry_init(RegistryUrl, resp, verbose)} :
            main' = IF r.raised # NoExc THEN Crash(r.raised)
                    ELSE [main EXCEPT !.pc = "library", !.libraries = r.libraries]
    /\ net' = Append(net, [method |-> "GET", url |-> RegistryUrl, auth |-> None])
    /\ UNCHANGED <<variant, verbose, getVars, linkVars, feedVars, tokVars, profVars,
                   fulVars>>

\* registry.authentication_document(library); when it gives None the listing
\* and sys.exit(), whose status without an argument is 0; otherwise
\* authentication_document.set_auth(username, password)
ResolveLibrary ==
    /\ main.pc = "library"
    /\ \E a \in {authentication_document(main.libraries, main.library)} :
         IF a.raised # NoExc
         THEN /\ main' = Crash(a.raised)
              /\ UNCHANGED <<net, data>>
         ELSE IF ~a.found
         THEN /\ main' = [main EXCEPT
                            !.pc = "exit", !.exit = 0, !.at = "library",
                            !.out = <<<<"Library not found">>,
                                      <<"Available libraries:">>>>
                                    \o SortedKeys(main.libraries)]
              /\ UNCHANGED <<net, data>>
         ELSE \E resp \in MainResponses(AuthDocBodies) :
              \E d \in {AuthenticationDocument_init(a.url, resp, verbose)} :
                 /\ net' = IF d.fetched
                           THEN Append(net, [method |-> "GET", url |-> a.url,
                                             auth |-> None])
                           ELSE net
                 /\ IF d.raised # NoExc
                    THEN main' = Crash(d.raised) /\ data' = data
                    ELSE /\ data' = d.data
                         /\ main' = [main EXCEPT
                                       !.pc = "profile",
                                       !.auth = HTTPBasicAuth(<<"user">>, <<"pw">>)]
    /\ UNCHANGED <<variant, verbose, calls, getVars, feedVars, tokVars, profVars, fulVars>>

\* patron_profile_document = authentication_document.patron_profile_document
\* and, when there is one, patron_profile_document.validate(registry)
ValidatePatronProfile ==
    /\ main.pc = "profile"
    /\ \E l \in {link_with_rel(data, PROFILE_REL)} :
         IF l.raised # NoExc THEN main' = Crash(l.raised) /\ net' = net
         ELSE IF ~Truthy(l.ret) THEN main' = Goto("bookshelf") /\ net' = net
         ELSE \E resp \in MainResponses(ProfileBodies),
                 postResp \in [status_code : {200},
                               content : {SignInBody(<<"urn:uuid:5">>), SignInBody(<<>>)}] :
              \E v \in {PatronProfileDocument_validate(
                           NewDocument("PatronProfileDocument", l.ret, main.auth, None),
                           variant, RegistryUrl, resp, postResp, verbose)} :
                 /\ net' = Append(net, [method |-> "GET", url |-> l.ret,
                                        auth |-> main.auth]) \o v.posts
                 /\ main' = IF v.raised # NoExc THEN Crash(v.raised)
                            ELSE Goto("bookshelf")
    /\ UNCHANGED <<variant, verbose, getVars, linkVars, feedVars, tokVars, profVars,
                   fulVars>>

\* bookshelf = authentication_document.bookshelf and, when there is one, the
\* GET of the feed that bookshelf.validate() starts with
OpenBookshelf ==
    /\ main.pc = "bookshelf"
    /\ \E l \in {link_with_rel(data, SHELF_REL)} :
         IF l.raised # NoExc THEN main' = Crash(l.raised) /\ net' = net
         ELSE IF ~Truthy(l.ret) THEN main' = Goto("catalog") /\ net' = net
         ELSE \E resp \in MainResponses(ShelfBodies) :
              \E g \in {OPDS1Feed_get(NewDocument("Bookshelf", l.ret, main.auth, None),
                                      resp, verbose, TRUE)} :
                 /\ net' = Append(net, [method |-> "GET", url |-> l.ret,
                                        auth |-> main.auth])
                 /\ main' = IF g.raised # NoExc THEN Crash(g.raised)
                            ELSE [main EXCEPT !.pc = "entries",
                                              !.todo = EntriesOf(g.ret)]
    /\ UNCHANGED <<variant, verbose, getVars, linkVars, feedVars, tokVars, profVars,
                   fulVars>>

\* the loop of Bookshelf.validate: the next entry is handed to validate_entry,
\* or the loop ends
NextEntry ==
    /\ main.pc = "entries" /\ Running
    /\ shelf.started /\ shelf.links = <<>> /\ stack = <<>> /\ pending = <<>>
    /\ IF main.todo = <<>>
       THEN main' = Goto("catalog") /\ shelf' = shelf
       ELSE /\ main' = [main EXCEPT !.todo = Tail(@)]
            /\ shelf' = [cls |-> "Bookshelf", auth |-> main.auth,
                         title |-> Head(main.todo).title,
                         links |-> AcquisitionLinks(Head(main.todo)),
                         started |-> FALSE]
    /\ UNCHANGED <<net, variant, verbose, REGISTRY, stack, pending, done, raised,
                   getVars, linkVars, feedVars, tokVars, profVars>>

\* an exception raised under validate_entry leaves main()
Traceback ==
    /\ main.pc = "entries" /\ ~Running
    /\ main' = Crash(raised)
    /\ UNCHANGED <<net, variant, verbose, getVars, linkVars, feedVars, tokVars,
                   profVars, fulVars>>

\* main_catalog = authentication_document.main_catalog and
\* main_catalog.validate(); main() returns
ValidateMainCatalog ==
    /\ main.pc = "catalog"
    /\ \E m \in {main_catalog(data, main.auth)} :
         IF m.raised # NoExc THEN main' = Crash(m.raised) /\ net' = net
         ELSE \E resp \in MainResponses(CatalogBodies) :
              \E v \in {OPDS1Feed_validate(m.ret, resp, verbose)} :
                 /\ net' = Append(net, HttpGet(m.ret))
                 /\ main' = IF v.report.raised # NoExc
                            THEN [Crash(v.report.raised) EXCEPT !.at = "validate"]
                            ELSE [main EXCEPT !.pc = "exit", !.exit = 0,
                                              !.at = "return"]
    /\ UNCHANGED <<variant, verbose, getVars, linkVars, feedVars, tokVars, profVars,
                   fulVars>>

NextMain ==
    \/ ConnectRegistry \/ ResolveLibrary \/ ValidatePatronProfile \/ OpenBookshelf
    \/ NextEntry \/ StartEntry \/ NextLink \/ Fulfill \/ Return \/ Traceback
    \/ ValidateMainCatalog

SpecMain == InitMain /\ [][NextMain]_vars

----------------------------------------------------------------------------
(* Properties of SpecMain *)

\* main() has ended
Exited == main.pc = "exit"

\* C12: once the library is resolved, and unless the adopted Short Client
\* Token is malformed, nothing ends the run before main_catalog.validate()
\* has been called: a run that ended did so in the registry or library steps,
\* with InvalidShortClientTokenException, in main_catalog.validate(), or by
\* returning from main().
C12_ReachesMainCatalog ==
    Exited =>
        \/ main.at \in {"registry", "library", "validate", "return"}
        \/ main.exc = "InvalidShortClientTokenException"

\* C13: when the library is not in the registry, main prints the error and
\* the sorted titles, fetches nothing beyond the registry and exits with a
\* status other than 0; a run that returns from main() exits with status 0.
C13_ExitStatus ==
    /\ (Exited /\ main.at = "library" /\ main.exc = NoExc) =>
          /\ main.out = <<<<"Library not found">>, <<"Available libraries:">>>>
                        \o SortedKeys(main.libraries)
          /\ Len(net) = 1
          /\ main.exit # 0
    /\ (Exited /\ main.at = "return") => main.exit = 0

----------------------------------------------------------------------------
(* Further properties of SpecGet and Spec *)

\* C14: request() prints the "Status code was ..." warning exactly when the
\* leading digit of the status code is not 2: for no code in 200..299, and
\* for every other code.
C14_StatusWarningOutside2xx ==
    (last.kind = "get" /\ last.fetched) =>
        (Logged(last.log, "warn", "Status code was")
            <=> last.resp.status_code \notin 200..299)

\* C15: the chain of nested Fulfillment.fulfill calls under a top-level call
\* is at most 1 deep, whatever the manifests contain: no fulfill call is made
\* from a call that was itself made by a handler.
C15_NestingAtMostOne ==
    /\ done.kind = "fulfill" => done.call.depth <= 1
    /\ \A i \in 1..Len(pending) : pending[i].depth <= 1

====
